---- MODULE Spec2Model ----
(***************************************************************************)
(* A model of webex_bot.WebexBot (src/webex_bot/webex_bot.py): the command *)
(* registry, the approval check, the command matcher, the execution phases *)
(* and the reply router.                                                   *)
(*                                                                         *)
(* Python strings that the code takes apart (lower(), find(), replace(),   *)
(* strip(), startswith(), ==) are sequences of one-character strings.      *)
(* Opaque strings (room ids, message ids, reply bodies) are TLA+ strings.  *)
(***************************************************************************)
EXTENDS Integers, Sequences, FiniteSets, TLC

VARIABLES
    commands,          \* self.commands: the registry, a set of Command objects (by identity)
    default_handler,   \* self.default_handler
    approved_users,    \* self.approved_users
    approved_domains,  \* self.approved_domains
    approved_rooms,    \* self.approved_rooms (a list)
    threads,           \* self.threads
    bot_display_name,  \* self.bot_display_name
    memberships,       \* backend: room id -> the emails teams.memberships.list finds
    api_error_rooms,   \* backend: the rooms whose membership lookup raises ApiError
    cached_response,   \* a Response object a command keeps and returns from every execute
    pc,                \* "idle": no call is active; "done": a call has returned (or raised)
    call,              \* the call that last ran: its name and its arguments
    log,               \* what that call did, in order: phases run, lookups, creates, deletes
    ret                \* how that call ended: returned or raised, and what

vars == <<commands, default_handler, approved_users, approved_domains, approved_rooms,
          threads, bot_display_name, memberships, api_error_rooms, cached_response,
          pc, call, log, ret>>

bot_state == <<commands, default_handler, approved_users, approved_domains, approved_rooms,
               threads, bot_display_name>>

backend == <<memberships, api_error_rooms>>

(***************************************************************************)
(* Python values                                                           *)
(***************************************************************************)

\* None where a character string is expected (no text is this sequence).
NoneStr == <<"None">>

\* None where an opaque string (an id) is expected.
None == "None"

\* bool(s) of an optional character string: None and '' are falsy.
Truthy(s) == s # NoneStr /\ s # <<>>

\* str.lower() on one character.
LowerChar(ch) ==
    CASE ch = "A" -> "a" [] ch = "B" -> "b" [] ch = "C" -> "c" [] ch = "E" -> "e"
      [] ch = "F" -> "f" [] ch = "H" -> "h" [] ch = "O" -> "o"
      [] OTHER -> ch

\* str.lower()
Lower(s) == [i \in DOMAIN s |-> LowerChar(s[i])]

\* s.startswith(p)
StartsWith(s, p) == Len(p) <= Len(s) /\ SubSeq(s, 1, Len(p)) = p

\* s.find(sub) != -1
Contains(s, sub) ==
    \E i \in 0..(Len(s) - Len(sub)) : SubSeq(s, i + 1, i + Len(sub)) = sub

\* s.replace(old, ''): every non-overlapping occurrence, left to right.
RECURSIVE Remove(_, _)
Remove(s, old) ==
    IF old = <<>> \/ Len(s) < Len(old) THEN s
    ELSE IF StartsWith(s, old) THEN Remove(SubSeq(s, Len(old) + 1, Len(s)), old)
    ELSE <<Head(s)>> \o Remove(Tail(s), old)

\* s.strip(): leading and trailing blanks removed.
RECURSIVE LStrip(_)
LStrip(s) == IF s # <<>> /\ Head(s) = " " THEN LStrip(Tail(s)) ELSE s
RECURSIVE RStrip(_)
RStrip(s) == IF s # <<>> /\ s[Len(s)] = " " THEN RStrip(SubSeq(s, 1, Len(s) - 1)) ELSE s
Strip(s) == RStrip(LStrip(s))

(***************************************************************************)
(* Command objects (webex_bot.models.command.Command).  The host creates   *)
(* them; the bot reads their attributes.                                   *)
(***************************************************************************)

HelpCommand == "help"

\* The Command objects the host has at hand.
CommandPool == {"help", "echo", "echo_exact", "form", "step2", "step3", "admin"}

NoCommand == "NoCommand"

command_keyword(c) ==
    CASE c = "help" -> <<"h", "e", "l", "p">>
      [] c = "echo" -> <<"e", "c", "h", "o">>
      [] c = "echo_exact" -> <<"e", "c", "h", "o">>
      [] c = "form" -> <<"f", "o", "r", "m">>
      [] c = "admin" -> <<"a", "d", "m", "i", "n">>
      [] OTHER -> NoneStr

exact_command_keyword_match(c) == c \in {"echo_exact", "admin", "step2"}

card_callback_keyword(c) ==
    CASE c = "form" -> <<"c", "b", "1">>
      [] c = "step2" -> <<"c", "b", "2">>
      [] c = "step3" -> <<"c", "b", "1">>
      [] OTHER -> NoneStr

chained_commands(c) ==
    CASE c = "form" -> <<"step2">>
      [] c = "step2" -> <<"step3">>
      [] c = "admin" -> <<"step3">>
      [] OTHER -> <<>>

command_approved_rooms(c) == IF c = "admin" THEN <<"r2">> ELSE <<>>

card(c) == IF c = "form" THEN "form_card" ELSE None

delete_previous_message(c) == c \in {"step2", "form", "admin"}

(***************************************************************************)
(* People, rooms, events                                                   *)
(***************************************************************************)

Email(local, domain) == [local |-> local, domain |-> domain]
NoEmail == Email("", "")
alice == Email("alice", "example.com")
mallory == Email("mallory", "other.com")

\* user_email.split('@')[1]
EmailDomain(email) == email.domain

Rooms == {"r1", "r2"}

(***************************************************************************)
(* What a call does, as a sequence of entries of one shape                 *)
(***************************************************************************)

NoBody == [heads_up |-> FALSE, email |-> NoEmail, text |-> "", listing |-> {}]

Blank ==
    [op |-> "", name |-> "", cmd |-> NoCommand, message |-> NoneStr, result |-> "",
     reply |-> [type |-> "none", items |-> <<>>], reply_one_to_one |-> FALSE,
     roomId |-> None, toPersonEmail |-> NoEmail, body |-> NoBody, parentId |-> None,
     attachments |-> None, target |-> None]

\* The loop of process_raw_command ended (line 198) with `command` = c (NoCommand for
\* None), having compared the commands against user_command.
Matched(c, user_command) ==
    [Blank EXCEPT !.op = "match", !.cmd = c, !.message = user_command]

\* command.<name>(message, teams_message, activity) was invoked and did `outcome`:
\* returned outcome.reply, raised BotException(outcome.reply, outcome.reply_one_to_one),
\* or raised another exception.
PhaseCall(name, c, message, outcome) ==
    [Blank EXCEPT !.op = "phase", !.name = name, !.cmd = c, !.message = message,
                  !.result = outcome.kind, !.reply = outcome.reply,
                  !.reply_one_to_one = outcome.reply_one_to_one]

\* self.default_handler(teams_message) was invoked.
HandlerCall == [Blank EXCEPT !.op = "default_handler"]

\* self.teams.memberships.list(roomId=room, personEmail=email) was invoked.
Lookup(room, email) ==
    [Blank EXCEPT !.op = "lookup", !.target = room, !.toPersonEmail = email]

\* self.teams.messages.delete(id) was invoked.
Delete(id) == [Blank EXCEPT !.op = "delete", !.target = id]

\* self.teams.messages.create(**kwargs) was invoked; an absent keyword is None/NoEmail.
Create(roomId, toPersonEmail, body, parentId, attachments) ==
    [Blank EXCEPT !.op = "create", !.roomId = roomId, !.toPersonEmail = toPersonEmail,
                  !.body = body, !.parentId = parentId, !.attachments = attachments]

\* quote_info(f"{user_email} I've messaged you 1-1. Please reply to me there.")
HeadsUp(user_email) ==
    [heads_up |-> TRUE, email |-> user_email,
     text |-> "I've messaged you 1-1. Please reply to me there.", listing |-> {}]

\* A string given as text or markdown: item.text, and the commands it lists when it is
\* the help text.
Markdown(item) ==
    [heads_up |-> FALSE, email |-> NoEmail, text |-> item.text, listing |-> item.listing]

\* How a call ended: it returned value ("None", "True", "False") or raised exc.
ReturnedValue(value) == [raised |-> FALSE, exc |-> None, value |-> value]
Returned == ReturnedValue("None")
Raised(exc) == [raised |-> TRUE, exc |-> exc, value |-> "None"]

(***************************************************************************)
(* Replies: what a phase of a command returns.  One shape for all:         *)
(*   type "none"      None                                                 *)
(*   type "text"      a str, items = <<it>>                                *)
(*   type "response"  a Response, items = <<it>>                           *)
(*   type "list"      a list, items in order                               *)
(* An item is a str (is_response FALSE, text) or a Response with its       *)
(* roomId, parentId, text and attachments; `cached` tells the one Response *)
(* object that outlives the dispatch from those made afresh.               *)
(***************************************************************************)

TextItem(text) ==
    [is_response |-> FALSE, text |-> text, listing |-> {}, roomId |-> None,
     parentId |-> None, attachments |-> None, cached |-> FALSE]

ResponseItem(text, roomId, parentId, attachments) ==
    [is_response |-> TRUE, text |-> text, listing |-> {}, roomId |-> roomId,
     parentId |-> parentId, attachments |-> attachments, cached |-> FALSE]

\* The Response object a command created once, with neither roomId nor parentId, and
\* returns from every execute: its fields are what the object holds now.
CachedResponseItem ==
    [ResponseItem("cached", cached_response.roomId, cached_response.parentId, None)
        EXCEPT !.cached = TRUE]

ReplyNone == [type |-> "none", items |-> <<>>]
ReplyText(text) == [type |-> "text", items |-> <<TextItem(text)>>]
ReplyItem(item) == [type |-> "text", items |-> <<item>>]
ReplyResponse(item) == [type |-> "response", items |-> <<item>>]
ReplyList(items) == [type |-> "list", items |-> items]

\* bool(reply)
ReplyTruthy(reply) ==
    CASE reply.type = "none" -> FALSE
      [] reply.type = "text" -> reply.items[1].text # ""
      [] reply.type = "response" -> TRUE
      [] reply.type = "list" -> reply.items # <<>>

\* self.teams.messages.create(**response.as_dict())
CreateResponse(item) ==
    Create(item.roomId, NoEmail, Markdown(item), item.parentId, item.attachments)

(***************************************************************************)
(* The reply router                                                        *)
(***************************************************************************)

\* send_message_to_room_or_person with the heads-up notice posted in every space.
SendMessageAlwaysHeadsUp(threads_on, user_email, room_id, reply_one_to_one, is_one_on_one_space, reply, conv_target_id) ==
    LET parent == IF threads_on THEN conv_target_id ELSE None
    IN  IF reply_one_to_one
        THEN <<Create(room_id, NoEmail, HeadsUp(user_email), parent, None),
               Create(None, user_email, Markdown(reply), parent, None)>>
        ELSE <<Create(room_id, NoEmail, Markdown(reply), parent, None)>>

send_message_to_room_or_person(threads_on, user_email, room_id, reply_one_to_one, is_one_on_one_space, reply, conv_target_id) ==
    LET parent == IF threads_on THEN conv_target_id ELSE None
    IN  IF reply_one_to_one
        THEN (IF ~is_one_on_one_space
              THEN <<Create(room_id, NoEmail, HeadsUp(user_email), parent, None)>>
              ELSE <<>>)
             \o <<Create(None, user_email, Markdown(reply), parent, None)>>
        ELSE <<Create(room_id, NoEmail, Markdown(reply), parent, None)>>

\* do_reply, lines 239-246: a single Response.
FillResponse(threads_on, item, room_id, conv_target_id) ==
    [item EXCEPT
        !.roomId = IF item.roomId = None THEN room_id ELSE @,
        !.parentId = IF item.parentId = None /\ conv_target_id # None /\ threads_on
                     THEN conv_target_id ELSE @]

\* do_reply, lines 249-254: a Response inside a list.
FillListResponse(threads_on, item, room_id, conv_target_id) ==
    [item EXCEPT
        !.roomId = IF item.roomId = None THEN room_id ELSE @,
        !.parentId = IF item.parentId = None /\ conv_target_id # None
                     THEN conv_target_id ELSE @]

\* do_reply, lines 248-256: the elements of a list, in order.
RECURSIVE ReplyItems(_, _, _, _, _, _, _)
ReplyItems(threads_on, items, room_id, user_email, reply_one_to_one, is_one_on_one_space, conv_target_id) ==
    IF items = <<>> THEN <<>>
    ELSE (IF Head(items).is_response
          THEN <<CreateResponse(FillListResponse(threads_on, Head(items), room_id,
                                                 conv_target_id))>>
          ELSE send_message_to_room_or_person(threads_on, user_email, room_id,
                                              reply_one_to_one, is_one_on_one_space,
                                              Head(items), conv_target_id))
         \o ReplyItems(threads_on, Tail(items), room_id, user_email, reply_one_to_one,
                       is_one_on_one_space, conv_target_id)

\* do_reply: the messages it creates, in order.
do_reply(threads_on, reply, room_id, user_email, reply_one_to_one, is_one_on_one_space, conv_target_id) ==
    IF ~ReplyTruthy(reply) THEN <<>>
    ELSE CASE reply.type = "response" ->
                <<CreateResponse(FillResponse(threads_on, reply.items[1], room_id,
                                              conv_target_id))>>
           [] reply.type = "list" ->
                ReplyItems(threads_on, reply.items, room_id, user_email, reply_one_to_one,
                           is_one_on_one_space, conv_target_id)
           [] OTHER ->
                send_message_to_room_or_person(threads_on, user_email, room_id,
                                               reply_one_to_one, is_one_on_one_space,
                                               reply.items[1], conv_target_id)

\* No command keeps a Response object.
NoResponse == [held |-> FALSE, roomId |-> None, parentId |-> None]

\* do_reply, lines 240-243 and 251-253: roomId and parentId are assigned to the
\* Response object itself; what the kept object holds once do_reply(reply) is through.
ResponseAfterReply(threads_on, reply, room_id, conv_target_id) ==
    IF ~ReplyTruthy(reply) THEN cached_response
    ELSE CASE reply.type = "response" /\ reply.items[1].cached ->
                LET filled == FillResponse(threads_on, reply.items[1], room_id,
                                           conv_target_id)
                IN  [held |-> TRUE, roomId |-> filled.roomId,
                     parentId |-> filled.parentId]
           [] reply.type = "list" /\ \E i \in DOMAIN reply.items : reply.items[i].cached ->
                LET filled == FillListResponse(threads_on, CachedResponseItem, room_id,
                                               conv_target_id)
                IN  [held |-> TRUE, roomId |-> filled.roomId,
                     parentId |-> filled.parentId]
           [] OTHER -> cached_response

(***************************************************************************)
(* The approval policy                                                     *)
(***************************************************************************)

\* self.teams.memberships.list(roomId=approved_room, personEmail=user_email)
ListMemberships(approved_room, user_email) ==
    {member \in memberships[approved_room] : member = user_email}

\* is_user_member_of_room with the try around the loop: the first ApiError ends it.
RECURSIVE MemberScanStopsAtError(_, _, _, _)
MemberScanStopsAtError(user_email, rooms, i, is_user_member) ==
    IF i > Len(rooms) \/ rooms[i] \in api_error_rooms THEN is_user_member
    ELSE MemberScanStopsAtError(user_email, rooms, i + 1,
                                IF user_email \in memberships[rooms[i]]
                                THEN TRUE ELSE is_user_member)

\* is_user_member_of_room, lines 130-139, from the room at position i on.
RECURSIVE MemberScan(_, _, _, _)
MemberScan(user_email, rooms, i, is_user_member) ==
    IF i > Len(rooms) THEN is_user_member
    ELSE MemberScan(user_email, rooms, i + 1,
                    IF rooms[i] \notin api_error_rooms
                       /\ \E member \in ListMemberships(rooms[i], user_email) :
                             member = user_email
                    THEN TRUE ELSE is_user_member)

\* is_user_member_of_room: its result, and the lookups it makes.
is_user_member_of_room(user_email, rooms) ==
    [value |-> MemberScan(user_email, rooms, 1, FALSE),
     log |-> [i \in 1..Len(rooms) |-> Lookup(rooms[i], user_email)]]

\* check_user_approved: its result, and the lookups it makes.
check_user_approved(user_email, rooms) ==
    IF approved_users = {} /\ approved_domains = {} /\ Len(rooms) = 0
    THEN [value |-> TRUE, log |-> <<>>]
    ELSE IF approved_domains # {} /\ EmailDomain(user_email) \in approved_domains
    THEN [value |-> TRUE, log |-> <<>>]
    ELSE IF approved_users # {} /\ user_email \in approved_users
    THEN [value |-> TRUE, log |-> <<>>]
    ELSE IF Len(rooms) > 0
    THEN is_user_member_of_room(user_email, rooms)
    ELSE [value |-> FALSE, log |-> <<>>]

(***************************************************************************)
(* The command registry                                                    *)
(***************************************************************************)

Range(seq) == {seq[i] : i \in DOMAIN seq}

\* add_command, lines 95-102: the duplicate check raises.
AddCommandRaises(registry, command_class) ==
    LET new_callback_keyword == card_callback_keyword(command_class)
    IN  \E c \in registry :
            Truthy(new_callback_keyword)
            /\ card_callback_keyword(c) = new_callback_keyword

\* add_command with the command added before the duplicate check.
AddCommandRegistryBeforeCheck(registry, command_class) ==
    registry \cup {command_class} \cup Range(chained_commands(command_class))

\* add_command: the registry it leaves.
AddCommandRegistry(registry, command_class) ==
    IF AddCommandRaises(registry, command_class) THEN registry
    ELSE registry \cup {command_class} \cup Range(chained_commands(command_class))

(***************************************************************************)
(* The command matcher                                                     *)
(***************************************************************************)

\* The loop body's test with a card callback matched like a text: the keyword of a
\* SUBSTRING command anywhere in the identifier.
MatchesCallbackBySubstring(c, user_command, is_card_callback_command) ==
    IF Truthy(command_keyword(c))
    THEN IF exact_command_keyword_match(c)
         THEN user_command = command_keyword(c)
         ELSE Contains(user_command, command_keyword(c))
    ELSE user_command = command_keyword(c) \/ user_command = card_callback_keyword(c)

\* process_raw_command, lines 182-196: the loop body's test of one command.
Matches(c, user_command, is_card_callback_command) ==
    IF ~is_card_callback_command /\ Truthy(command_keyword(c))
    THEN IF exact_command_keyword_match(c)
         THEN user_command = command_keyword(c)
         ELSE Contains(user_command, command_keyword(c))
    ELSE user_command = command_keyword(c) \/ user_command = card_callback_keyword(c)

\* The commands the loop can stop at: a set is iterated in no particular order, so the
\* first command that passes the test is any command that passes it.
Candidates(user_command, is_card_callback_command) ==
    {c \in commands : Matches(c, user_command, is_card_callback_command)}

\* process_raw_command, lines 174-196: the values `command` can hold after the loop.
Selections(user_command, is_card_callback_command) ==
    IF Candidates(user_command, is_card_callback_command) = {} THEN {NoCommand}
    ELSE Candidates(user_command, is_card_callback_command)

\* get_message_passed_to_command
get_message_passed_to_command(command, message) ==
    IF Truthy(command) /\ StartsWith(Lower(message), Lower(command))
    THEN SubSeq(message, Len(command) + 1, Len(message))
    ELSE message

(***************************************************************************)
(* The phases of a command.  What a phase does is the command author's     *)
(* code: it returns a reply, raises a BotException carrying a reply and a  *)
(* one-to-one flag, or raises something else.                              *)
(***************************************************************************)

Return(reply) == [kind |-> "return", reply |-> reply, reply_one_to_one |-> FALSE]
BotException(reply_message, reply_one_to_one) ==
    [kind |-> "BotException", reply |-> ReplyText(reply_message),
     reply_one_to_one |-> reply_one_to_one]
OtherException == [kind |-> "Exception", reply |-> ReplyNone, reply_one_to_one |-> FALSE]

\* HelpCommand.execute reading the commands the bot was constructed with, not the
\* registry as it is now.
HelpTextAtConstruction ==
    [TextItem("Available Commands:") EXCEPT
        !.listing = {cmd \in commands \cap {HelpCommand, "echo"} :
                        command_keyword(cmd) # <<"h", "e", "l", "p">>}]

\* HelpCommand.execute: the text that lists every command whose keyword is not "help".
HelpText ==
    [TextItem("Available Commands:") EXCEPT
        !.listing = {cmd \in commands : command_keyword(cmd) # <<"h", "e", "l", "p">>}]

\* What pre_card_load_reply and pre_execute of command c can do; those of HelpCommand
\* and EchoCommand are the inherited ones, which return None.
PreOutcomes(c) ==
    IF c \in {HelpCommand, "echo"} THEN {Return(ReplyNone)}
    ELSE {Return(ReplyNone), Return(ReplyText("one moment")),
          BotException("busy", TRUE), OtherException}

\* EchoCommand.execute: `message` is the str of get_message_passed_to_command, which
\* has no attribute `text`; the f-string raises AttributeError.
EchoExecute == OtherException

\* What card_callback (by default: execute) of command c can do.  The command that
\* keeps a Response object, when there is one, is "echo_exact".
ExecuteOutcomes(c) ==
    IF c = HelpCommand THEN {Return(ReplyItem(HelpText))}
    ELSE IF c = "echo" THEN {EchoExecute}
    ELSE IF c = "echo_exact" /\ cached_response.held
    THEN {Return(ReplyResponse(CachedResponseItem)), Return(ReplyText("done"))}
    ELSE {Return(ReplyNone),
          Return(ReplyText("done")),
          Return(ReplyResponse(ResponseItem("response", None, None, None))),
          Return(ReplyResponse(ResponseItem("response", "elsewhere", "p9", None))),
          Return(ReplyList(<<ResponseItem("first", None, None, None), TextItem("second")>>)),
          BotException("sorry", FALSE),
          BotException("sorry", TRUE),
          OtherException}

\* run_pre_card_load_reply: the pair it returns (an exception that is no BotException
\* is not caught; the caller tests for it).
run_pre_card_load_reply(outcome) ==
    IF outcome.kind = "return"
    THEN [reply |-> outcome.reply, reply_one_to_one |-> FALSE]
    ELSE [reply |-> outcome.reply, reply_one_to_one |-> outcome.reply_one_to_one]

\* run_pre_execute
run_pre_execute(outcome) ==
    IF outcome.kind = "return"
    THEN [reply |-> outcome.reply, reply_one_to_one |-> FALSE]
    ELSE [reply |-> outcome.reply, reply_one_to_one |-> outcome.reply_one_to_one]

\* run_command_and_handle_bot_exceptions with the exception's reply_one_to_one dropped.
RunCommandDropsOneToOne(outcome) ==
    [reply |-> outcome.reply, reply_one_to_one |-> FALSE]

\* run_command_and_handle_bot_exceptions
run_command_and_handle_bot_exceptions(outcome) ==
    IF outcome.kind = "return"
    THEN [reply |-> outcome.reply, reply_one_to_one |-> FALSE]
    ELSE [reply |-> outcome.reply, reply_one_to_one |-> outcome.reply_one_to_one]

(***************************************************************************)
(* Dispatch                                                                *)
(***************************************************************************)

\* One way a call can run: what it does, how it ends, and what the kept Response object
\* holds afterwards.
Run(entries, how) == [log |-> entries, ret |-> how, cached |-> cached_response]

\* activity.get('parent', {}).get('id', activity.get('id'))
ThreadParentId(e) == IF e.parent_id # None THEN e.parent_id ELSE e.id

\* process_raw_command, lines 220-230 and 236: a fresh invocation of a command with a
\* card.  Line 236 reads reply_one_to_one, which this branch never assigns.
CardBranch(command, message, e, user_email, pre) ==
    LET invoked == <<PhaseCall("pre_card_load_reply", command, message, pre)>>
        r == run_pre_card_load_reply(pre)
    IN  IF pre.kind = "Exception" THEN Run(invoked, Raised("Exception"))
        ELSE Run(invoked \o do_reply(threads, r.reply, e.roomId, user_email,
                                     r.reply_one_to_one, e.one_on_one, ThreadParentId(e)),
                 Raised("UnboundLocalError"))

\* process_raw_command, lines 231-236, with the reply of pre_execute held back until
\* card_callback has run.
ExecuteBranchRepliesLate(command, message, e, user_email, pre, exe) ==
    LET invoked == <<PhaseCall("pre_execute", command, message, pre)>>
        r1 == run_pre_execute(pre)
        sent1 == do_reply(threads, r1.reply, e.roomId, user_email, r1.reply_one_to_one,
                          e.one_on_one, ThreadParentId(e))
        invoked2 == <<PhaseCall("card_callback", command, message, exe)>>
        r2 == run_command_and_handle_bot_exceptions(exe)
        sent2 == do_reply(threads, r2.reply, e.roomId, user_email, r2.reply_one_to_one,
                          e.one_on_one, ThreadParentId(e))
    IN  IF pre.kind = "Exception" THEN Run(invoked, Raised("Exception"))
        ELSE IF exe.kind = "Exception"
        THEN Run(invoked \o invoked2, Raised("Exception"))
        ELSE [Run(invoked \o invoked2 \o sent1 \o sent2, Returned) EXCEPT
                 !.cached = ResponseAfterReply(threads, r2.reply, e.roomId,
                                               ThreadParentId(e))]

\* process_raw_command, lines 231-236: pre_execute, its reply, card_callback, its reply.
ExecuteBranch(command, message, e, user_email, pre, exe) ==
    LET invoked == <<PhaseCall("pre_execute", command, message, pre)>>
        r1 == run_pre_execute(pre)
        sent1 == do_reply(threads, r1.reply, e.roomId, user_email, r1.reply_one_to_one,
                          e.one_on_one, ThreadParentId(e))
        invoked2 == <<PhaseCall("card_callback", command, message, exe)>>
        r2 == run_command_and_handle_bot_exceptions(exe)
        sent2 == do_reply(threads, r2.reply, e.roomId, user_email, r2.reply_one_to_one,
                          e.one_on_one, ThreadParentId(e))
    IN  IF pre.kind = "Exception" THEN Run(invoked, Raised("Exception"))
        ELSE IF exe.kind = "Exception"
        THEN Run(invoked \o sent1 \o invoked2, Raised("Exception"))
        ELSE [Run(invoked \o sent1 \o invoked2 \o sent2, Returned) EXCEPT
                 !.cached = ResponseAfterReply(threads, r2.reply, e.roomId,
                                               ThreadParentId(e))]

\* process_raw_command, lines 212-236, once `command` is decided.
RunCommand(command, raw_message, e, user_email, is_card_callback_command, pre, exe) ==
    LET message == get_message_passed_to_command(command_keyword(command), raw_message)
        deleted == IF delete_previous_message(command) /\ e.messageId # None
                   THEN <<Delete(e.messageId)>> ELSE <<>>
        rest == IF ~is_card_callback_command /\ card(command) # None
                THEN CardBranch(command, message, e, user_email, pre)
                ELSE ExecuteBranch(command, message, e, user_email, pre, exe)
    IN  [rest EXCEPT !.log = deleted \o @]

\* The runs of RunCommand over what the phases of `command` can do.
CommandRuns(command, raw_message, e, user_email, is_card_callback_command) ==
    {RunCommand(command, raw_message, e, user_email, is_card_callback_command, pre, exe) :
        pre \in PreOutcomes(command), exe \in ExecuteOutcomes(command)}

\* process_raw_command, lines 198-236, with no `return` after the fallback handler.
AfterMatchHandlerFallsThrough(selected, raw_message, e, user_email, is_card_callback_command) ==
    IF selected = NoCommand
    THEN IF default_handler # None
         THEN {[r EXCEPT !.log = <<HandlerCall>> \o @] :
                  r \in CommandRuns(HelpCommand, raw_message, e, user_email,
                                    is_card_callback_command)}
         ELSE CommandRuns(HelpCommand, raw_message, e, user_email,
                          is_card_callback_command)
    ELSE IF command_approved_rooms(selected) # <<>>
    THEN LET chk == check_user_approved(user_email, command_approved_rooms(selected))
         IN  IF ~chk.value THEN {Run(chk.log, Returned)}
             ELSE {[r EXCEPT !.log = chk.log \o @] :
                      r \in CommandRuns(selected, raw_message, e, user_email,
                                        is_card_callback_command)}
    ELSE CommandRuns(selected, raw_message, e, user_email, is_card_callback_command)

\* process_raw_command, lines 198-236, with the check of lines 205-210 made against the
\* bot's approved_rooms as well as the command's.
AfterMatchChecksBotRooms(selected, raw_message, e, user_email, is_card_callback_command) ==
    IF selected = NoCommand
    THEN IF default_handler # None
         THEN {Run(<<HandlerCall>>, Returned)}
         ELSE CommandRuns(HelpCommand, raw_message, e, user_email,
                          is_card_callback_command)
    ELSE IF command_approved_rooms(selected) # <<>>
    THEN LET chk == check_user_approved(user_email,
                        approved_rooms \o command_approved_rooms(selected))
         IN  IF ~chk.value THEN {Run(chk.log, Returned)}
             ELSE {[r EXCEPT !.log = chk.log \o @] :
                      r \in CommandRuns(selected, raw_message, e, user_email,
                                        is_card_callback_command)}
    ELSE CommandRuns(selected, raw_message, e, user_email, is_card_callback_command)

\* process_raw_command, lines 198-236, with `command` as the loop left it.
AfterMatch(selected, raw_message, e, user_email, is_card_callback_command) ==
    IF selected = NoCommand
    THEN IF default_handler # None
         THEN {Run(<<HandlerCall>>, Returned)}
         ELSE CommandRuns(HelpCommand, raw_message, e, user_email,
                          is_card_callback_command)
    ELSE IF command_approved_rooms(selected) # <<>>
    THEN LET chk == check_user_approved(user_email, command_approved_rooms(selected))
         IN  IF ~chk.value THEN {Run(chk.log, Returned)}
             ELSE {[r EXCEPT !.log = chk.log \o @] :
                      r \in CommandRuns(selected, raw_message, e, user_email,
                                        is_card_callback_command)}
    ELSE CommandRuns(selected, raw_message, e, user_email, is_card_callback_command)

\* process_raw_command: every way it can run.  raw_message.lower() on None raises.
process_raw_command(raw_message, e, user_email, is_card_callback_command) ==
    IF raw_message = NoneStr THEN {Run(<<>>, Raised("AttributeError"))}
    ELSE UNION {
           {[r EXCEPT !.log = <<Matched(selected, Lower(raw_message))>> \o @] :
              r \in AfterMatch(selected, raw_message, e, user_email,
                               is_card_callback_command)} :
           selected \in Selections(Lower(raw_message), is_card_callback_command)}

\* process_incoming_message: every way it can run.
process_incoming_message(e) ==
    IF e.actor_type # "PERSON" THEN {Run(<<>>, Returned)}
    ELSE LET chk == check_user_approved(e.personEmail, approved_rooms)
         IN  IF ~chk.value THEN {Run(chk.log, Returned)}
             ELSE IF ~e.one_on_one /\ e.text = NoneStr
             THEN {Run(chk.log, Raised("AttributeError"))}
             ELSE {[r EXCEPT !.log = chk.log \o @] :
                     r \in process_raw_command(
                              IF ~e.one_on_one
                              THEN Strip(Remove(e.text, bot_display_name))
                              ELSE e.text,
                              e, e.personEmail, FALSE)}

\* process_incoming_card_action: every way it can run.
process_incoming_card_action(e) ==
    process_raw_command(IF Truthy(e.callback_keyword) THEN e.callback_keyword
                        ELSE e.command_keyword,
                        e, e.personEmail, e.callback_keyword # NoneStr)

(***************************************************************************)
(* Events the transport delivers                                           *)
(***************************************************************************)

NoEvent ==
    [kind |-> "", personEmail |-> NoEmail, roomId |-> None, one_on_one |-> FALSE,
     actor_type |-> "", id |-> None, parent_id |-> None, text |-> NoneStr,
     callback_keyword |-> NoneStr, command_keyword |-> NoneStr, messageId |-> None]

Senders == {alice, mallory}

\* teams_message.text of the text messages delivered.
MessageTexts ==
    {<<"E", "C", "H", "O">>,
     <<"s", "a", "y", " ", "e", "c", "h", "o", " ", "n", "o", "w">>,
     <<"B", "o", "t", " ", "e", "c", "h", "o">>,
     <<"c", "b", "1">>,
     <<"f", "o", "r", "m">>,
     <<"a", "d", "m", "i", "n">>,
     <<"h", "i">>,
     <<"B", "o", "t">>,
     NoneStr}

\* attachment_actions.inputs of the card actions delivered:
\* <<inputs.get(CALLBACK_KEYWORD_KEY), inputs.get(COMMAND_KEYWORD_KEY)>>.
CardInputs ==
    {<<<<"c", "b", "1">>, NoneStr>>,
     <<<<"C", "B", "2">>, NoneStr>>,
     <<NoneStr, <<"e", "c", "h", "o">>>>,
     <<<<>>, <<"f", "o", "r", "m">>>>,
     <<<<"a", "d", "m", "i", "n">>, NoneStr>>,
     <<<<"m", "y", " ", "e", "c", "h", "o">>, NoneStr>>,
     <<NoneStr, NoneStr>>}

MessageEvents ==
    {[NoEvent EXCEPT !.kind = "message", !.personEmail = who, !.roomId = "space1",
                     !.one_on_one = one, !.actor_type = actor, !.id = "a1",
                     !.parent_id = parent, !.text = text, !.messageId = mid] :
        who \in Senders, one \in BOOLEAN, actor \in {"PERSON", "BOT"},
        parent \in {None, "p1"}, text \in MessageTexts, mid \in {None, "m1"}}

CardEvents ==
    {[NoEvent EXCEPT !.kind = "card", !.personEmail = who, !.roomId = "space1",
                     !.one_on_one = one, !.actor_type = actor, !.id = "a1",
                     !.parent_id = parent, !.callback_keyword = inputs[1],
                     !.command_keyword = inputs[2], !.messageId = mid] :
        who \in Senders, one \in BOOLEAN, actor \in {"PERSON", "BOT"},
        parent \in {None, "p1"}, inputs \in CardInputs, mid \in {None, "m1"}}

(***************************************************************************)
(* The state machine.  A call of the host or of the transport runs to its  *)
(* end in one step (pc: "idle" -> "done") and leaves what it did in call,  *)
(* log and ret; the caller then goes on to its next call.                  *)
(***************************************************************************)

NoCall == [name |-> "", cmd |-> NoCommand, e |-> NoEvent, email |-> NoEmail, rooms |-> <<>>]

\* The approval lists the bot is constructed with: open to all, one approved user,
\* one approved room.
ApprovalScopes ==
    {[users |-> {}, domains |-> {}, rooms |-> <<>>],
     [users |-> {alice}, domains |-> {}, rooms |-> <<>>],
     [users |-> {}, domains |-> {}, rooms |-> <<"r1">>]}

\* WebexBot.__init__
Init ==
    /\ \E include_demo_commands \in BOOLEAN :
          commands = IF include_demo_commands
                     THEN AddCommandRegistry({HelpCommand}, "echo")
                     ELSE {HelpCommand}
    /\ default_handler = None
    /\ \E scope \in ApprovalScopes :
          /\ approved_users = scope.users
          /\ approved_domains = scope.domains
          /\ approved_rooms = scope.rooms
    /\ threads \in BOOLEAN
    /\ bot_display_name = <<"B", "o", "t">>
    /\ memberships = [room \in Rooms |-> {alice}]
    /\ api_error_rooms = {}
    /\ cached_response = NoResponse
    /\ pc = "idle"
    /\ call = NoCall
    /\ log = <<>>
    /\ ret = Returned

\* add_command(command_class)
AddCommand ==
    /\ pc = "idle"
    /\ \E command_class \in CommandPool :
          /\ commands' = AddCommandRegistry(commands, command_class)
          /\ ret' = IF AddCommandRaises(commands, command_class)
                    THEN Raised("Exception") ELSE Returned
          /\ call' = [NoCall EXCEPT !.name = "add_command", !.cmd = command_class]
    /\ log' = <<>>
    /\ pc' = "done"
    /\ UNCHANGED <<default_handler, approved_users, approved_domains, approved_rooms,
                   threads, bot_display_name, backend, cached_response>>

\* set_default_handler(handler_func)
SetDefaultHandler ==
    /\ pc = "idle"
    /\ default_handler = None
    /\ default_handler' = "handler_func"
    /\ UNCHANGED <<commands, approved_users, approved_domains, approved_rooms, threads,
                   bot_display_name, backend, cached_response, pc, call, log, ret>>

\* process_incoming_message with a fallback handler that is dropped once it has been
\* called.
ProcessIncomingMessageDropsHandler ==
    /\ pc = "idle"
    /\ \E e \in MessageEvents :
          /\ call' = [NoCall EXCEPT !.name = "process_incoming_message", !.e = e]
          /\ \E r \in process_incoming_message(e) :
                /\ log' = r.log
                /\ ret' = r.ret
                /\ cached_response' = r.cached
                /\ default_handler' = IF \E i \in DOMAIN r.log : r.log[i] = HandlerCall
                                      THEN None ELSE default_handler
    /\ pc' = "done"
    /\ UNCHANGED <<commands, approved_users, approved_domains, approved_rooms, threads,
                   bot_display_name, backend>>

\* The transport calls on_message=self.process_incoming_message.
ProcessIncomingMessage ==
    /\ pc = "idle"
    /\ \E e \in MessageEvents :
          /\ call' = [NoCall EXCEPT !.name = "process_incoming_message", !.e = e]
          /\ \E r \in process_incoming_message(e) :
                /\ log' = r.log
                /\ ret' = r.ret
                /\ cached_response' = r.cached
    /\ pc' = "done"
    /\ UNCHANGED <<bot_state, backend>>

\* The transport calls on_card_action=self.process_incoming_card_action.
ProcessIncomingCardAction ==
    /\ pc = "idle"
    /\ \E e \in CardEvents :
          /\ call' = [NoCall EXCEPT !.name = "process_incoming_card_action", !.e = e]
          /\ \E r \in process_incoming_card_action(e) :
                /\ log' = r.log
                /\ ret' = r.ret
                /\ cached_response' = r.cached
    /\ pc' = "done"
    /\ UNCHANGED <<bot_state, backend>>

\* The caller has its result and is ready for its next call.
NextCall ==
    /\ pc = "done"
    /\ pc' = "idle"
    /\ call' = NoCall
    /\ log' = <<>>
    /\ ret' = Returned
    /\ UNCHANGED <<bot_state, backend, cached_response>>

Next ==
    \/ AddCommand
    \/ SetDefaultHandler
    \/ ProcessIncomingMessage
    \/ ProcessIncomingCardAction
    \/ NextCall

Spec == Init /\ [][Next]_vars

(***************************************************************************)
(* check_user_approved on its own: the approval lists, the backend's       *)
(* memberships and the arguments range over small sets.                    *)
(***************************************************************************)

\* The longest list of rooms check_user_approved is called with.
MaxRooms == 2

bob == Email("bob", "example.com")

People == {alice, mallory, bob}

RoomLists == UNION {[1..n -> Rooms] : n \in 0..MaxRooms}

InitApproval ==
    /\ commands = {HelpCommand}
    /\ default_handler = None
    /\ approved_users \in SUBSET {alice, mallory}
    /\ approved_domains \in SUBSET {"example.com", "other.com"}
    /\ approved_rooms \in {<<>>, <<"r1">>}
    /\ threads = TRUE
    /\ bot_display_name = <<"B", "o", "t">>
    /\ memberships \in [Rooms -> SUBSET {alice, bob}]
    /\ api_error_rooms \in SUBSET Rooms
    /\ cached_response = NoResponse
    /\ pc = "idle"
    /\ call = NoCall
    /\ log = <<>>
    /\ ret = Returned

\* check_user_approved(user_email, approved_rooms)
CheckUserApproved ==
    /\ pc = "idle"
    /\ \E user_email \in People, rooms \in RoomLists :
          /\ call' = [NoCall EXCEPT !.name = "check_user_approved", !.email = user_email,
                                    !.rooms = rooms]
          /\ log' = check_user_approved(user_email, rooms).log
          /\ ret' = ReturnedValue(IF check_user_approved(user_email, rooms).value
                                  THEN "True" ELSE "False")
    /\ pc' = "done"
    /\ UNCHANGED <<bot_state, backend, cached_response>>

NextApproval ==
    \/ CheckUserApproved
    \/ NextCall

SpecApproval == InitApproval /\ [][NextApproval]_vars

(***************************************************************************)
(* Events from two rooms, one dispatched after the other, and a command    *)
(* ("echo_exact") whose execute returns the one Response object it keeps.  *)
(***************************************************************************)

EventRooms == {"space1", "space2"}

\* The id of the activity of an event in `room`, and of the parent it may have.
ActivityId(room) == IF room = "space1" THEN "a1" ELSE "a2"
ActivityParent(room) == IF room = "space1" THEN "p1" ELSE "p2"

RoomEvents ==
    {[NoEvent EXCEPT !.kind = "message", !.personEmail = who, !.roomId = room,
                     !.one_on_one = FALSE, !.actor_type = "PERSON",
                     !.id = ActivityId(room),
                     !.parent_id = IF threaded THEN ActivityParent(room) ELSE None,
                     !.text = text] :
        who \in Senders, room \in EventRooms, threaded \in BOOLEAN,
        text \in {<<"E", "C", "H", "O">>, <<"h", "i">>}}

\* WebexBot.__init__, the host having made a command that keeps a Response().
InitShared ==
    /\ commands = {HelpCommand}
    /\ default_handler = None
    /\ approved_users = {}
    /\ approved_domains = {}
    /\ approved_rooms = <<>>
    /\ threads \in BOOLEAN
    /\ bot_display_name = <<"B", "o", "t">>
    /\ memberships = [room \in Rooms |-> {alice}]
    /\ api_error_rooms = {}
    /\ cached_response = [NoResponse EXCEPT !.held = TRUE]
    /\ pc = "idle"
    /\ call = NoCall
    /\ log = <<>>
    /\ ret = Returned

\* The transport calls on_message=self.process_incoming_message, events of two rooms.
ProcessIncomingRoomMessage ==
    /\ pc = "idle"
    /\ \E e \in RoomEvents :
          /\ call' = [NoCall EXCEPT !.name = "process_incoming_message", !.e = e]
          /\ \E r \in process_incoming_message(e) :
                /\ log' = r.log
                /\ ret' = r.ret
                /\ cached_response' = r.cached
    /\ pc' = "done"
    /\ UNCHANGED <<bot_state, backend>>

NextShared ==
    \/ AddCommand
    \/ ProcessIncomingRoomMessage
    \/ NextCall

SpecShared == InitShared /\ [][NextShared]_vars

(***************************************************************************)
(* Properties                                                              *)
(***************************************************************************)

\* A dispatch of an event has just ended.
Dispatched ==
    pc = "done" /\ call.name \in {"process_incoming_message", "process_incoming_card_action"}

Min(S) == CHOOSE x \in S : \A y \in S : x <= y

\* The messages created right after entry i of the log, up to the next entry that is
\* not a create.
SendsAfter(i) ==
    LET stop == {j \in (i + 1)..Len(log) : log[j].op # "create"}
    IN  SubSeq(log, i + 1, IF stop = {} THEN Len(log) ELSE Min(stop) - 1)

\* Every command reachable from the commands of S along chained_commands.
RECURSIVE ChainedClosure(_)
ChainedClosure(S) ==
    LET more == S \cup UNION {Range(chained_commands(c)) : c \in S}
    IN  IF more = S THEN S ELSE ChainedClosure(more)

\* C1: no two distinct commands of the registry share a non-empty
\* card_callback_keyword, whatever add_command calls were made.
C1_UniqueCallbackKeywords ==
    \A a, b \in commands :
        (a # b /\ Truthy(card_callback_keyword(a)))
            => card_callback_keyword(a) # card_callback_keyword(b)

\* C2: add_command(c) raises exactly when c's non-empty card_callback_keyword is that
\* of a registered command, and then leaves the registry as it was; otherwise it
\* returns and c is registered.
C2_AddCommandDuplicate ==
    [][(pc = "idle" /\ pc' = "done" /\ call'.name = "add_command") =>
         LET c == call'.cmd
             duplicate == /\ Truthy(card_callback_keyword(c))
                          /\ \E r \in commands :
                                card_callback_keyword(r) = card_callback_keyword(c)
         IN  /\ duplicate => (ret'.raised /\ commands' = commands)
             /\ ~duplicate => (~ret'.raised /\ c \in commands')]_vars

\* add_command raised for a command with chained commands, and neither it nor they
\* are registered.
C2_Witness ==
    /\ pc = "done" /\ call.name = "add_command" /\ ret.raised
    /\ call.cmd \notin commands
    /\ chained_commands(call.cmd) # <<>>
    /\ Range(chained_commands(call.cmd)) \cap commands = {}

\* C3: after add_command(c) returns, c and every command reachable from c along
\* chained_commands are registered.
C3_TransitiveChain ==
    (pc = "done" /\ call.name = "add_command" /\ ~ret.raised)
        => ChainedClosure({call.cmd}) \subseteq commands

\* C4: with threads false, no message created during a dispatch carries a thread
\* parent; stated for the parent the router supplies, the event's thread root.
C4_NoParentWhenThreadsOff ==
    (Dispatched /\ ~threads) =>
        \A i \in DOMAIN log :
            log[i].op = "create" => log[i].parentId # ThreadParentId(call.e)

\* C5: when the sender of an event fails the global approval check, no phase and no
\* fallback handler is invoked and no message is created or deleted.
C5_DeniedSenderIsSilent ==
    (Dispatched /\ ~check_user_approved(call.e.personEmail, approved_rooms).value) =>
        \A i \in DOMAIN log :
            log[i].op \notin {"phase", "default_handler", "create", "delete"}

\* C6: a fresh invocation of a command with a card runs pre_card_load_reply, and then
\* (unless that phase raised something other than a BotException) ends without an
\* exception, its last message being the one message that carries the card, with
\* neither pre_execute nor card_callback run.
C6_CardInvocation ==
    Dispatched =>
        \A i \in DOMAIN log :
            (log[i].op = "phase" /\ log[i].name = "pre_card_load_reply"
             /\ log[i].result # "Exception") =>
                /\ ~ret.raised
                /\ \A j \in DOMAIN log : log[j].op = "phase" => j = i
                /\ Cardinality({j \in DOMAIN log :
                                  /\ log[j].op = "create"
                                  /\ log[j].attachments = card(log[i].cmd)}) = 1
                /\ log[Len(log)].op = "create"
                /\ log[Len(log)].attachments = card(log[i].cmd)
                /\ log[Len(log)].body.text
                      = "This bot requires a client which can render cards."

\* C7: when card_callback (execute) raises BotException(m, f), the dispatch does not
\* raise, and m is delivered as a plain-text reply routed by f: f false, exactly one
\* message, into the originating room, none to the user directly; f true, a direct
\* message to the user, and m is not posted in the room.
C7_BotExceptionReply ==
    Dispatched =>
        \A i \in DOMAIN log :
            (log[i].op = "phase" /\ log[i].name = "card_callback"
             /\ log[i].result = "BotException") =>
                LET m == log[i].reply.items[1].text
                    sent == SubSeq(log, i + 1, Len(log))
                IN  /\ ~ret.raised
                    /\ \A j \in DOMAIN sent : sent[j].op = "create"
                    /\ ~log[i].reply_one_to_one =>
                          /\ Len(sent) = 1
                          /\ sent[1].roomId = call.e.roomId
                          /\ sent[1].toPersonEmail = NoEmail
                          /\ sent[1].body.text = m
                    /\ log[i].reply_one_to_one =>
                          /\ Len(sent) >= 1
                          /\ sent[Len(sent)].toPersonEmail = call.e.personEmail
                          /\ sent[Len(sent)].roomId = None
                          /\ sent[Len(sent)].body.text = m
                          /\ \A j \in DOMAIN sent :
                                sent[j].roomId # None => sent[j].body.text # m

\* execute raised BotException("sorry", False) and "sorry" went to the room.
C7_Witness ==
    /\ Dispatched /\ ~ret.raised
    /\ \E i \in DOMAIN log :
          /\ log[i].op = "phase" /\ log[i].name = "card_callback"
          /\ log[i].result = "BotException" /\ ~log[i].reply_one_to_one
          /\ card(log[i].cmd) = None
          /\ Len(log) = i + 1
          /\ log[i + 1].op = "create" /\ log[i + 1].roomId = "space1"
          /\ log[i + 1].body.text = "sorry"

\* C8: a plain-text reply with the one-to-one flag set is delivered, outside a
\* one-on-one space, as two messages: the heads-up notice to the room, then the reply
\* to the user's email; in a one-on-one space as that direct message alone; with the
\* flag unset, as one message to the room.
C8_PlainTextDelivery ==
    Dispatched =>
        \A i \in DOMAIN log :
            (log[i].op = "phase" /\ log[i].result # "Exception"
             /\ log[i].reply.type = "text" /\ log[i].reply.items[1].text # "") =>
                LET m == log[i].reply.items[1].text
                    flag == log[i].result = "BotException" /\ log[i].reply_one_to_one
                    sent == SendsAfter(i)
                    direct == sent[Len(sent)]
                IN  /\ (flag /\ ~call.e.one_on_one) =>
                          /\ Len(sent) = 2
                          /\ sent[1].body.heads_up
                          /\ sent[1].roomId = call.e.roomId
                          /\ sent[1].toPersonEmail = NoEmail
                    /\ (flag /\ call.e.one_on_one) => Len(sent) = 1
                    /\ flag =>
                          /\ direct.toPersonEmail = call.e.personEmail
                          /\ direct.roomId = None
                          /\ ~direct.body.heads_up
                          /\ direct.body.text = m
                    /\ ~flag =>
                          /\ Len(sent) = 1
                          /\ sent[1].roomId = call.e.roomId
                          /\ sent[1].toPersonEmail = NoEmail
                          /\ ~sent[1].body.heads_up
                          /\ sent[1].body.text = m

\* A reply redirected to the user from a shared space: the notice, then the message.
C8_Witness ==
    /\ Dispatched /\ ~call.e.one_on_one
    /\ \E i \in DOMAIN log :
          /\ log[i].op = "phase" /\ log[i].result = "BotException"
          /\ log[i].reply_one_to_one
          /\ Len(log) >= i + 2
          /\ log[i + 1].op = "create" /\ log[i + 1].body.heads_up
          /\ log[i + 1].roomId = "space1"
          /\ log[i + 2].op = "create" /\ log[i + 2].toPersonEmail = call.e.personEmail

\* C9: check_user_approved(email, rooms) returns True exactly when the approved
\* users, the approved domains and rooms are all empty, or the email's domain is an
\* approved domain, or the email is an approved user, or the backend finds the user
\* in one of the rooms whose lookup does not fail; it never raises, and when it
\* consults the rooms it looks every one of them up.
C9_CheckUserApproved ==
    (pc = "done" /\ call.name = "check_user_approved") =>
        LET member == \E i \in DOMAIN call.rooms :
                          /\ call.rooms[i] \notin api_error_rooms
                          /\ call.email \in memberships[call.rooms[i]]
            listed == \/ call.email.domain \in approved_domains
                      \/ call.email \in approved_users
        IN  /\ ~ret.raised
            /\ ret.value = "True" <=>
                  \/ (approved_users = {} /\ approved_domains = {} /\ call.rooms = <<>>)
                  \/ listed
                  \/ member
            /\ (~listed /\ call.rooms # <<>>) =>
                  /\ Len(log) = Len(call.rooms)
                  /\ \A i \in DOMAIN log :
                        log[i].op = "lookup" /\ log[i].target = call.rooms[i]

\* The lookup of the first room fails, the user is found in the second, and is approved.
C9_Witness ==
    /\ pc = "done" /\ call.name = "check_user_approved"
    /\ call.rooms = <<"r1", "r2">>
    /\ "r1" \in api_error_rooms /\ "r2" \notin api_error_rooms
    /\ call.email \in memberships["r2"]
    /\ call.email \notin approved_users
    /\ call.email.domain \notin approved_domains
    /\ ret.value = "True"

\* C10: for a text message, a command the matcher selects satisfies its own rule
\* against the lower-cased input (EXACT: the input equals its keyword; SUBSTRING: its
\* keyword occurs in the input), and a command is selected whenever some registered
\* command with a non-empty keyword satisfies its rule.
C10_SelectedSatisfiesRule ==
    (pc = "done" /\ call.name = "process_incoming_message") =>
        \A i \in DOMAIN log :
            log[i].op = "match" =>
                LET user_command == log[i].message
                    rule(c) == IF exact_command_keyword_match(c)
                               THEN user_command = command_keyword(c)
                               ELSE Contains(user_command, command_keyword(c))
                IN  /\ log[i].cmd # NoCommand => rule(log[i].cmd)
                    /\ (\E c \in commands : Truthy(command_keyword(c)) /\ rule(c))
                          => log[i].cmd # NoCommand

\* C11: when no registered command matches the event: with a fallback handler set, the
\* handler is invoked exactly once and the dispatch ends there, with no phase run and no
\* message created or deleted; with none set, the help command is run through
\* pre_execute and card_callback and its reply is sent, and no approval check of a
\* command (no membership lookup) is made on the way.
C11_NoMatchFallback ==
    Dispatched =>
        \A i \in DOMAIN log :
            (log[i].op = "match" /\ log[i].cmd = NoCommand) =>
                LET rest == SubSeq(log, i + 1, Len(log))
                IN  /\ default_handler # None =>
                          /\ rest = <<HandlerCall>>
                          /\ ret = Returned
                          /\ \A j \in DOMAIN log :
                                log[j].op \notin {"phase", "create", "delete"}
                    /\ default_handler = None =>
                          /\ Len(rest) = 3
                          /\ rest[1].op = "phase" /\ rest[1].name = "pre_execute"
                          /\ rest[1].cmd = HelpCommand
                          /\ rest[2].op = "phase" /\ rest[2].name = "card_callback"
                          /\ rest[2].cmd = HelpCommand
                          /\ rest[3].op = "create"
                          /\ rest[3].body.text = "Available Commands:"
                          /\ ret = Returned

\* With commands besides help registered and a fallback handler set, a text that
\* matches none of them went to the handler, and to nothing else.
C11_Witness ==
    /\ Dispatched /\ default_handler # None
    /\ "admin" \in commands
    /\ call.name = "process_incoming_message"
    /\ Len(log) = 2
    /\ log[1].op = "match" /\ log[1].cmd = NoCommand
    /\ log[2] = HandlerCall

C13_PreExecuteBeforeExecute ==
    Dispatched =>
        \A i \in DOMAIN log :
            /\ (log[i].op = "phase" /\ log[i].name = "card_callback") =>
                  /\ i > 1
                  /\ \E j \in 1..(i - 1) :
                        /\ log[j].op = "phase" /\ log[j].name = "pre_execute"
                        /\ log[j].cmd = log[i].cmd
                        /\ log[j].result # "Exception"
                        /\ \A k \in (j + 1)..(i - 1) : log[k].op = "create"
                        /\ ReplyTruthy(log[j].reply) =>
                              /\ i - 1 > j
                              /\ log[i - 1].body.text = log[j].reply.items[1].text
                        /\ ~ReplyTruthy(log[j].reply) => i = j + 1
                  /\ log[i].result = "Exception" => (ret.raised /\ i = Len(log))
            /\ (log[i].op = "phase" /\ log[i].name = "pre_execute"
                /\ log[i].result # "Exception") =>
                  \E j \in (i + 1)..Len(log) :
                      log[j].op = "phase" /\ log[j].name = "card_callback"
            /\ (log[i].op = "match" /\ log[i].cmd # NoCommand
                /\ (card(log[i].cmd) = None \/ call.e.callback_keyword # NoneStr)
                /\ (command_approved_rooms(log[i].cmd) # <<>> =>
                       check_user_approved(call.e.personEmail,
                                           command_approved_rooms(log[i].cmd)).value)) =>
                  \E j \in (i + 1)..Len(log) :
                      log[j].op = "phase" /\ log[j].name = "pre_execute"

\* pre_execute returned "one moment", which was sent; execute then raised: the dispatch
\* ended with the exception and the log with the call of execute.
C13_Witness ==
    /\ Dispatched /\ ret = Raised("Exception")
    /\ Len(log) >= 3
    /\ log[Len(log)].op = "phase" /\ log[Len(log)].name = "card_callback"
    /\ log[Len(log)].result = "Exception"
    /\ log[Len(log) - 1].op = "create" /\ log[Len(log) - 1].body.text = "one moment"
    /\ log[Len(log) - 2].op = "phase" /\ log[Len(log) - 2].name = "pre_execute"

\* C14: when the command that is run has delete_previous_message set and the event
\* carries a message id, exactly one delete is issued, for that id, before any phase
\* and any reply; when the flag is unset or the event has no message id, none is.  No
\* delete is issued for an event whose sender fails the global approval check or the
\* check against the selected command's approved_rooms, or that the fallback handler
\* handled.
C14_DeletePreviousMessage ==
    Dispatched =>
        LET deletes == {i \in DOMAIN log : log[i].op = "delete"}
            phases == {i \in DOMAIN log : log[i].op = "phase"}
            creates == {i \in DOMAIN log : log[i].op = "create"}
            selected == {log[i].cmd : i \in {j \in DOMAIN log : log[j].op = "match"}}
        IN  /\ phases # {} =>
                  IF delete_previous_message(log[Min(phases)].cmd)
                     /\ call.e.messageId # None
                  THEN /\ deletes = {Min(phases) - 1}
                       /\ log[Min(phases) - 1].target = call.e.messageId
                       /\ \A i \in creates : i > Min(phases)
                  ELSE deletes = {}
            /\ ~check_user_approved(call.e.personEmail, approved_rooms).value
                  => deletes = {}
            /\ (\E c \in selected :
                   /\ c # NoCommand
                   /\ command_approved_rooms(c) # <<>>
                   /\ ~check_user_approved(call.e.personEmail,
                                           command_approved_rooms(c)).value)
                  => deletes = {}
            /\ (\E i \in DOMAIN log : log[i].op = "default_handler") => deletes = {}
            /\ phases = {} => deletes = {}

\* C15: when the selected command has a non-empty approved_rooms, the approval check
\* made for it looks memberships up only in the command's own rooms, never in the
\* bot's approved_rooms; the sender passes when an approved user, of an approved
\* domain, or found in one of the command's rooms, and otherwise the dispatch ends
\* there: no phase runs, no message is created and none is deleted.
C15_CommandApprovedRooms ==
    Dispatched =>
        \A i \in DOMAIN log :
            (log[i].op = "match" /\ log[i].cmd # NoCommand
             /\ command_approved_rooms(log[i].cmd) # <<>>) =>
                LET own == command_approved_rooms(log[i].cmd)
                    rest == SubSeq(log, i + 1, Len(log))
                    lookups == {j \in DOMAIN rest : rest[j].op = "lookup"}
                    who == call.e.personEmail
                    passes == \/ who \in approved_users
                              \/ who.domain \in approved_domains
                              \/ \E k \in DOMAIN own :
                                    /\ own[k] \notin api_error_rooms
                                    /\ who \in memberships[own[k]]
                IN  /\ \A j \in lookups :
                          /\ rest[j].target \in Range(own)
                          /\ rest[j].target \notin Range(approved_rooms) \ Range(own)
                          /\ rest[j].toPersonEmail = who
                    /\ ~passes =>
                          /\ ret = Returned
                          /\ lookups = DOMAIN rest
                          /\ Len(rest) = Len(own)
                    /\ passes => \E j \in DOMAIN rest : rest[j].op = "phase"

\* The bot's approved room is r1 and the command's is r2: the sender, found in r1 by the
\* global check, was looked up in r2 alone for the command, and the command ran.
C15_Witness ==
    /\ Dispatched
    /\ approved_rooms = <<"r1">>
    /\ Len(log) >= 4
    /\ log[1] = Lookup("r1", call.e.personEmail)
    /\ log[2].op = "match" /\ command_approved_rooms(log[2].cmd) = <<"r2">>
    /\ log[3] = Lookup("r2", call.e.personEmail)
    /\ \A j \in 4..Len(log) : log[j].op # "lookup"
    /\ \E j \in 4..Len(log) : log[j].op = "phase"

\* C16: a text message never selects a command whose command_keyword is empty or
\* absent, whatever the text: empty once the bot's name is stripped, or equal to the
\* command's card_callback_keyword.
C16_TextNeverSelectsKeywordless ==
    (pc = "done" /\ call.name = "process_incoming_message") =>
        \A i \in DOMAIN log :
            (log[i].op = "match" /\ log[i].cmd # NoCommand)
                => Truthy(command_keyword(log[i].cmd))

\* C17: for a card action that carries a callback keyword, the command selected is one
\* whose command_keyword or card_callback_keyword equals the lower-cased identifier
\* the action named (its callback keyword, or its command keyword when the callback
\* keyword is empty), with no substring matching; the command then runs pre_execute
\* followed by card_callback: pre_card_load_reply is not invoked and the card is not
\* sent.
C17_CardCallback ==
    (Dispatched /\ call.name = "process_incoming_card_action"
     /\ call.e.callback_keyword # NoneStr) =>
        LET identifier == Lower(IF Truthy(call.e.callback_keyword)
                                THEN call.e.callback_keyword
                                ELSE call.e.command_keyword)
        IN  \A i \in DOMAIN log :
                /\ (log[i].op = "match" /\ log[i].cmd # NoCommand) =>
                      /\ \/ command_keyword(log[i].cmd) = identifier
                         \/ card_callback_keyword(log[i].cmd) = identifier
                      /\ (command_approved_rooms(log[i].cmd) # <<>> =>
                             check_user_approved(call.e.personEmail,
                                 command_approved_rooms(log[i].cmd)).value)
                            => \E j \in (i + 1)..Len(log) :
                                  /\ log[j].op = "phase" /\ log[j].name = "pre_execute"
                                  /\ log[j].cmd = log[i].cmd
                /\ log[i].op = "phase" =>
                      /\ log[i].name \in {"pre_execute", "card_callback"}
                      /\ log[i].name = "card_callback" =>
                            \E j \in 1..(i - 1) :
                                log[j].op = "phase" /\ log[j].name = "pre_execute"
                /\ log[i].op = "create" => log[i].attachments = None

\* The callback keyword 'cb1' of a card action selected form, the command with the
\* card, by its card_callback_keyword: pre_execute and card_callback ran and the reply
\* went out.
C17_Witness ==
    /\ Dispatched /\ call.name = "process_incoming_card_action"
    /\ call.e.callback_keyword = <<"c", "b", "1">>
    /\ Len(log) >= 4
    /\ \E i \in DOMAIN log :
          /\ log[i].op = "match" /\ log[i].cmd = "form"
          /\ \E j \in (i + 1)..Len(log) :
                /\ log[j].op = "phase" /\ log[j].name = "pre_execute"
                /\ \E k \in (j + 1)..Len(log) :
                      log[k].op = "phase" /\ log[k].name = "card_callback"
    /\ log[Len(log)].op = "create"

\* C18: an event whose actor is not a person, text message or card action, is dropped
\* before anything else: no membership lookup, no matching, no phase, no fallback
\* handler, no message created or deleted, and the dispatch returns.
C18_NonPersonDiscarded ==
    (Dispatched /\ call.e.actor_type # "PERSON") => (log = <<>> /\ ret = Returned)

C20_RepliesStayWithTheirEvent ==
    Dispatched =>
        \A i \in DOMAIN log :
            log[i].op = "create" =>
                /\ log[i].roomId # "elsewhere" => log[i].roomId \in {call.e.roomId, None}
                /\ log[i].parentId # "p9"
                      => log[i].parentId \in {ThreadParentId(call.e), None}

====
